---------------------------- MODULE Spec2Model ----------------------------
(***************************************************************************)
(* A model of the easyweb site helpers:                                    *)
(*   - the session gate (auth.js: authenticate, isAuthenticated, logout,   *)
(*     and the auto-redirect guard run at script load);                    *)
(*   - the hosted-API ButtonManager (SheetDB backed, localStorage cache).  *)
(*                                                                         *)
(* JavaScript values that the code lets flow through `&&` are kept as      *)
(* tagged values, so that "returns false" and "returns a falsy value" are  *)
(* different statements.                                                   *)
(***************************************************************************)
EXTENDS Integers, Sequences, FiniteSets, TLC

VARIABLES
    \* ---- session gate ----
    authStore,   \* localStorage['auth']: the stored text, by what JSON.parse makes of it
    now,         \* the wall clock read by `new Date()`
    pathname,    \* window.location.pathname of the page whose script last loaded
    nav,         \* the value last assigned to window.location.href by that page ("" = none)
    authRet,     \* what the last isAuthenticated() call returned
    authThrew,   \* whether the last isAuthenticated() call let an exception escape
    loginArgs,   \* the (username, password) the last authenticate() call was given
    loginRet,    \* what the last authenticate() call returned
    lastOp,      \* the operation that produced the current state
    \* ---- hosted-API ButtonManager ----
    buttons,     \* this.buttons
    cache,       \* localStorage['buttonData']: the stored text
    dom,         \* href, textContent and title of the page's elements
    applied,     \* this.buttons as updateButtons() last rendered it
    staticFile,  \* what the site serves at config.json
    pollOn,      \* whether init has registered the setInterval poll
    initPc,      \* init(): "fetch" while its load awaits, then "done" or "threw"
    pollPc,      \* a poll tick's loadButtonData(): "idle" or "fetch"
    reloadPc,    \* reload(): "idle" or "fetch"
    updPc,       \* updateButton(): "idle", "get" or "post"
    updArgs,     \* the (buttonType, updates) of the last updateButton() call
    updRet,      \* what the last updateButton() call returned
    reqs,        \* the requests the last updateButton() call has issued
    ops,         \* how many poll ticks, reload() and updateButton() calls have begun
    hEvt,        \* the step that produced the current state
    probe,       \* what that step did (updateButtons() calls, cache read, response
                 \* consumed), which loads in flight another load has overtaken,
                 \* whether a load overwrote the url of the updateButton() call in
                 \* flight, whether a poll tick has failed
    \* ---- static-file ButtonManager (script.js) ----
    config,      \* this.config
    sdom,        \* href, textContent and title of the elements of its page
    watchOn,     \* whether setupConfigWatcher() has registered its setInterval
    sPc,         \* init(), a watcher tick and reload(): "idle", "fetch" or "done"
    sOps,        \* how many watcher ticks and calls have begun
    sEvt,        \* the step that produced the current state, and what it did
    \* ---- updateButtons() applied to a given page ----
    bench        \* the page, the snapshot, the DOM before and after each call

gateVars == <<authStore, now, pathname, nav, authRet, authThrew, loginArgs, loginRet, lastOp>>

hostedVars ==
    <<buttons, cache, dom, applied, staticFile, pollOn, initPc, pollPc, reloadPc,
      updPc, updArgs, updRet, reqs, ops, hEvt, probe>>

staticVars == <<config, sdom, watchOn, sPc, sOps, sEvt>>

vars == <<gateVars, hostedVars, staticVars, bench>>

-----------------------------------------------------------------------------
(* Bounds *)

\* The clock runs over 0..MaxTime.
MaxTime == 2

\* After construction, at most MaxOps poll ticks, reload() calls and
\* updateButton() calls begin (and as many watcher ticks and calls of the
\* static-file manager).
MaxOps == 2

\* updateButtons() is applied at most MaxPasses times to the same snapshot.
MaxPasses == 2

-----------------------------------------------------------------------------
(* JavaScript values *)

Undefined == [t |-> "undefined", v |-> ""]
JSFalse   == [t |-> "boolean", v |-> "false"]
JSTrue    == [t |-> "boolean", v |-> "true"]
Str(s)    == [t |-> "string", v |-> s]
Bool(b)   == IF b THEN JSTrue ELSE JSFalse

\* ToBoolean: undefined, false and the empty string are the falsy values here.
Truthy(x) ==
    ~ \/ x.t = "undefined"
      \/ (x.t = "boolean" /\ x.v = "false")
      \/ (x.t = "string" /\ x.v = "")

\* a && b evaluates to a when a is falsy, and to b otherwise.
AndAnd(a, b) == IF Truthy(a) THEN b ELSE a

-----------------------------------------------------------------------------
(* auth.js *)

AdminPassword == "G9m#tX2!pV7q@Lz4"

AUTH_CONFIG ==
    [users |-> << [username |-> "admin", password |-> AdminPassword, role |-> "admin"] >>]

\* Array.prototype.find: the first element that satisfies the test, if any.

\* find() with a test that compares the username alone.
FindUserIgnoringPassword(username, password) ==
    LET users == AUTH_CONFIG.users
        hits  == {i \in 1..Len(users) : users[i].username = username}
    IN  IF hits = {} THEN <<>>
        ELSE << users[CHOOSE i \in hits : \A j \in hits : i <= j] >>

\* find() with the test of lines 18-19.
FindUser(username, password) ==
    LET users == AUTH_CONFIG.users
        hits  == {i \in 1..Len(users) :
                     users[i].username = username /\ users[i].password = password}
    IN  IF hits = {} THEN <<>>
        ELSE << users[CHOOSE i \in hits : \A j \in hits : i <= j] >>

Unauthenticated == [authenticated |-> FALSE, username |-> "", role |-> ""]

authenticate(username, password) ==
    LET user == FindUser(username, password)
    IN  IF user # <<>>
        THEN [authenticated |-> TRUE, username |-> user[1].username, role |-> user[1].role]
        ELSE Unauthenticated

\* The stored text, classified by what localStorage.getItem and JSON.parse do with it.
\*   absent  : getItem returns null
\*   empty   : the empty string
\*   garbage : text JSON.parse rejects with a SyntaxError
\*   null    : the text "null"
\*   prim    : a JSON number, string, boolean or array (no username/token/expires)
\*   object  : a JSON object; a missing field reads as undefined
NoDate == [valid |-> FALSE, ms |-> 0]
DateAt(n) == [valid |-> TRUE, ms |-> n]

NoFields == [username |-> Undefined, token |-> Undefined, expires |-> NoDate]

MarkerObjects ==
    [username : {Undefined, Str(""), Str("admin")},
     token    : {Undefined, Str(""), Str("tok")},
     expires  : {NoDate} \cup {DateAt(n) : n \in 0..MaxTime}]

StoredValues ==
    {[kind |-> k, obj |-> NoFields] : k \in {"absent", "empty", "garbage", "null", "prim"}}
    \cup {[kind |-> "object", obj |-> o] : o \in MarkerObjects}

Absent == [kind |-> "absent", obj |-> NoFields]

\* authenticate() that stores a session marker itself when the pair matches.
StorageAfterLogin(stored, result) ==
    IF result.authenticated
    THEN [kind |-> "object",
          obj  |-> [username |-> Str("admin"), token |-> Str("tok"),
                    expires |-> DateAt(MaxTime)]]
    ELSE stored

\* What authenticate() leaves under the key 'auth': lines 15-29 call neither
\* getItem nor setItem.
StorageAfterAuthenticate(stored, result) == stored

\* new Date(expires) > new Date(): false for an Invalid Date.
DateAfter(expires, clock) == expires.valid /\ expires.ms > clock

\* The body of the try block: JSON.parse, the destructuring, the && chain.
\* JSON.parse throws on garbage; destructuring null throws a TypeError;
\* destructuring a primitive or an array yields undefined for every name.
TryBody(stored, clock) ==
    CASE stored.kind \in {"garbage", "null"} -> [threw |-> TRUE, value |-> Undefined]
      [] stored.kind = "prim" ->
            [threw |-> FALSE,
             value |-> AndAnd(Undefined, AndAnd(Undefined, Bool(DateAfter(NoDate, clock))))]
      [] OTHER ->
            [threw |-> FALSE,
             value |-> AndAnd(stored.obj.username,
                              AndAnd(stored.obj.token,
                                     Bool(DateAfter(stored.obj.expires, clock))))]

isAuthenticated(stored, clock) ==
    IF stored.kind \in {"absent", "empty"}
    THEN [threw |-> FALSE, value |-> JSFalse]
    ELSE LET r == TryBody(stored, clock)
         IN  IF r.threw THEN [threw |-> FALSE, value |-> JSFalse] ELSE r

\* Paths are sequences of pieces; endsWith compares the trailing pieces.
LoginPage == "login.html"

Pathnames ==
    { <<"/">>, <<"/", "index.html">>, <<"/", "admin.html">>, <<"/", LoginPage>> }

EndsWith(path, suffix) ==
    /\ Len(path) >= Len(suffix)
    /\ SubSeq(path, Len(path) - Len(suffix) + 1, Len(path)) = suffix

OnLoginPage(path) == EndsWith(path, <<LoginPage>>)

\* The guard without its pathname test.
GuardRedirectsAlways(path, stored, clock) ==
    ~ Truthy(isAuthenticated(stored, clock).value)

\* The auto-redirect guard at the end of the script.
GuardRedirects(path, stored, clock) ==
    /\ ~ OnLoginPage(path)
    /\ ~ Truthy(isAuthenticated(stored, clock).value)

\* logout() without the removeItem.
LogoutKeepsMarker(stored) == [store |-> stored, href |-> LoginPage]

\* logout(): removeItem then the assignment to location.href.
Logout(stored) == [store |-> Absent, href |-> LoginPage]

-----------------------------------------------------------------------------
(* Session gate: actions *)

Usernames == {"admin", "Admin", "guest"}
Passwords == {AdminPassword, "admin"}

\* Whoever owns the storage (the login page after a successful authenticate,
\* or the user editing it) puts a text under the key.
StoreMarker ==
    \E m \in StoredValues \ {Absent} :
        /\ authStore' = m
        /\ lastOp' = "store"
        /\ UNCHANGED <<now, pathname, nav, authRet, authThrew, loginArgs, loginRet>>
        /\ UNCHANGED <<hostedVars, staticVars, bench>>

Tick ==
    /\ now < MaxTime
    /\ now' = now + 1
    /\ lastOp' = "tick"
    /\ UNCHANGED <<authStore, pathname, nav, authRet, authThrew, loginArgs, loginRet>>
    /\ UNCHANGED <<hostedVars, staticVars, bench>>

\* A page of the site loads the script: the guard runs once.
PageLoad ==
    \E p \in Pathnames :
        /\ pathname' = p
        /\ nav' = IF GuardRedirects(p, authStore, now) THEN LoginPage ELSE ""
        /\ lastOp' = "load"
        /\ UNCHANGED <<authStore, now, authRet, authThrew, loginArgs, loginRet>>
        /\ UNCHANGED <<hostedVars, staticVars, bench>>

CallIsAuthenticated ==
    /\ authRet' = isAuthenticated(authStore, now).value
    /\ authThrew' = isAuthenticated(authStore, now).threw
    /\ lastOp' = "isAuthenticated"
    /\ UNCHANGED <<authStore, now, pathname, nav, loginArgs, loginRet>>
    /\ UNCHANGED <<hostedVars, staticVars, bench>>

CallAuthenticate ==
    \E u \in Usernames, p \in Passwords :
        /\ loginArgs' = <<u, p>>
        /\ loginRet' = authenticate(u, p)
        /\ authStore' = StorageAfterAuthenticate(authStore, authenticate(u, p))
        /\ lastOp' = "authenticate"
        /\ UNCHANGED <<now, pathname, nav, authRet, authThrew>>
        /\ UNCHANGED <<hostedVars, staticVars, bench>>

CallLogout ==
    /\ authStore' = Logout(authStore).store
    /\ nav' = Logout(authStore).href
    /\ lastOp' = "logout"
    /\ UNCHANGED <<now, pathname, authRet, authThrew, loginArgs, loginRet>>
    /\ UNCHANGED <<hostedVars, staticVars, bench>>

GateNext ==
    \/ StoreMarker
    \/ Tick
    \/ PageLoad
    \/ CallIsAuthenticated
    \/ CallAuthenticate
    \/ CallLogout

-----------------------------------------------------------------------------
(* Hosted-API ButtonManager: data *)

Names == {"primary", "secondary", "accent"}

\* Object.entries / Object.values visit the keys in insertion order.
NameOrder == <<"primary", "secondary", "accent">>

Columns == {"btn1", "btn2", "btn3"}

\* The constructor's this.buttons.
DefaultEntries ==
    [n \in Names |->
        CASE n = "primary" ->
                [text |-> "Get Started", url |-> "#", column |-> "btn1",
                 displayText |-> "Get Started"]
          [] n = "secondary" ->
                [text |-> "Learn More", url |-> "#", column |-> "btn2",
                 displayText |-> "Learn More"]
          [] OTHER ->
                [text |-> "Join Now", url |-> "#", column |-> "btn3",
                 displayText |-> "Join Now"]]

\* A value this.buttons can hold: null, or an object from names to entries.
NoEntries == [n \in {} |-> DefaultEntries["primary"]]
Null == [null |-> TRUE, m |-> NoEntries]
Obj(m) == [null |-> FALSE, m |-> m]

Defaults == Obj(DefaultEntries)

HasKey(b, n) == ~ b.null /\ n \in DOMAIN b.m

\* Names every object inherits from Object.prototype; reading one through an
\* object that has no such key of its own gives a function, which is truthy.
InheritedNames == {"constructor"}

\* Whether this.buttons[n] is truthy (line 278): an own entry, or an inherited
\* member.
HasEntry(b, n) == ~ b.null /\ (n \in DOMAIN b.m \/ n \in InheritedNames)

\* The own enumerable fields that `{ ...this.buttons[n] }` copies: those of
\* the entry, none of an inherited function.
NoOwnFields == [f \in {} |-> ""]
SpreadOf(b, n) == IF n \in DOMAIN b.m THEN b.m[n] ELSE NoOwnFields

\* A field of an entry; a field the entry lacks reads as undefined, which is
\* falsy like the empty string.
Field(entry, f) == IF f \in DOMAIN entry THEN entry[f] ELSE ""

\* localStorage text: absent (getItem returns null), garbage (JSON.parse
\* throws), or the JSON text of a value.
AbsentText == [kind |-> "absent", val |-> Null]
GarbageText == [kind |-> "garbage", val |-> Null]

\* JSON.stringify of this.buttons (null, or an object of string fields).
Stringify(b) == [kind |-> "json", val |-> b]

\* JSON.parse of a stored text.
Parse(text) ==
    IF text.kind = "garbage" THEN [threw |-> TRUE, value |-> Null]
    ELSE [threw |-> FALSE, value |-> text.val]

\* The page: each element's class list, as className.split(' ') gives it.
DomClasses == << <<"btn", "primary">>, <<"secondary">> >>

Elements == 1..Len(DomClasses)

\* Whether element e of a page (the class lists of its elements) has class c.
HasClassOn(page, e, c) == \E i \in 1..Len(page[e]) : page[e][i] = c

HasClass(e, c) == HasClassOn(DomClasses, e, c)

\* querySelectorAll(`.btn.${type}`), and `.${type}` when that finds nothing.
TargetsOn(page, type) ==
    LET both == {e \in DOMAIN page : HasClassOn(page, e, "btn") /\ HasClassOn(page, e, type)}
    IN  IF both # {} THEN both ELSE {e \in DOMAIN page : HasClassOn(page, e, type)}

Targets(type) == TargetsOn(DomClasses, type)

HtmlDom == [e \in Elements |-> [href |-> "html", text |-> "html", title |-> ""]]

\* The forEach body with a textContent that grows at every call.
RenderEntryAppending(page, d, type, data) ==
    [e \in DOMAIN page |->
        IF e \in TargetsOn(page, type)
        THEN [d[e] EXCEPT !.text = IF d[e].text = "html" THEN "once" ELSE "twice"]
        ELSE d[e]]

\* The body of updateButtons' forEach for one entry.
RenderEntryOn(page, d, type, data) ==
    [e \in DOMAIN page |->
        IF e \in TargetsOn(page, type)
        THEN [href  |-> IF Field(data, "url") # "" THEN data.url ELSE d[e].href,
              text  |-> IF Field(data, "displayText") # "" THEN data.displayText
                        ELSE IF Field(data, "text") # "" THEN data.text
                        ELSE d[e].text,
              title |-> IF Field(data, "description") # "" THEN data.description
                        ELSE d[e].title]
        ELSE d[e]]

RenderEntry(d, type, data) == RenderEntryOn(DomClasses, d, type, data)

\* The forEach as a loop that ends at the first name without elements.
RECURSIVE RenderUntilMissing(_, _, _, _)
RenderUntilMissing(page, d, b, i) ==
    IF i > Len(NameOrder) THEN d
    ELSE LET type == NameOrder[i]
         IN  IF type \in DOMAIN b.m /\ TargetsOn(page, type) = {} THEN d
             ELSE RenderUntilMissing(page,
                     IF type \in DOMAIN b.m
                     THEN RenderEntryOn(page, d, type, b.m[type]) ELSE d,
                     b, i + 1)

\* Object.entries(this.buttons).forEach, from the i-th name on.
RECURSIVE RenderFromOn(_, _, _, _)
RenderFromOn(page, d, b, i) ==
    IF i > Len(NameOrder) THEN d
    ELSE LET type == NameOrder[i]
         IN  RenderFromOn(page,
                 IF type \in DOMAIN b.m THEN RenderEntryOn(page, d, type, b.m[type]) ELSE d,
                 b, i + 1)

RenderFrom(d, b, i) == RenderFromOn(DomClasses, d, b, i)

\* updateButtons() on a page: nothing when this.buttons is falsy.
updateButtonsOn(page, b, d) == IF b.null THEN d ELSE RenderFromOn(page, d, b, 1)

updateButtons(b, d) == updateButtonsOn(DomClasses, b, d)

\* What the rendering state becomes when updateButtons() runs on (b, d).
Rendered(st) ==
    IF st.buttons.null THEN [st EXCEPT !.calls = @ + 1]
    ELSE [st EXCEPT !.dom = updateButtons(st.buttons, st.dom), !.applied = st.buttons,
                    !.calls = @ + 1]

\* The pathname test of lines 38, 49 and 166: the instance is only created on
\* pages that are not admin.html.
OnAdminPage == FALSE

-----------------------------------------------------------------------------
(* Hosted-API ButtonManager: responses *)

RowUrls == {"", "u1"}

\* A row of the sheet: the button columns it has, with their cells.
RowColumnSets == { {}, {"btn1"}, Columns }
Rows == UNION {[cols -> RowUrls] : cols \in RowColumnSets}

\* How a fetch and the reading of its body end:
\*   reject    : the fetch (or the body read) rejects
\*   http      : a response whose ok is false
\*   malformed : a 2xx response whose body is not JSON
\*   rows      : a 2xx response with an array of rows
Failure(k) == [kind |-> k, rows |-> <<>>]
GetResponses ==
    {Failure(k) : k \in {"reject", "http", "malformed"}}
    \cup {[kind |-> "rows", rows |-> <<>>]}
    \cup {[kind |-> "rows", rows |-> <<r>>] : r \in Rows}

WriteResponses == {"reject", "http", "ok"}


-----------------------------------------------------------------------------
(* Hosted-API ButtonManager: the methods, from the point their fetch settles *)

\* The part of the manager's state the methods read and write.
\* calls counts the updateButtons() calls of the step, read tells whether the
\* step called localStorage.getItem('buttonData').
State(b, c, d, a) ==
    [buttons |-> b, cache |-> c, dom |-> d, applied |-> a, calls |-> 0, read |-> FALSE]

\* loadFromLocalStorage()
loadFromLocalStorage(st) ==
    LET got == [st EXCEPT !.read = TRUE]
    IN  IF st.cache.kind = "absent" THEN [st |-> got, ret |-> FALSE]
        ELSE IF Parse(st.cache).threw THEN [st |-> got, ret |-> FALSE]
        ELSE [st  |-> Rendered([got EXCEPT !.buttons = Parse(st.cache).value]),
              ret |-> TRUE]

\* Lines 141-149 as a loop that keeps only the entries it updates.
RowIntoButtonsDropping(b, row) ==
    Obj([n \in {k \in DOMAIN b.m : Field(b.m[k], "column") \in DOMAIN row} |->
            [b.m[n] EXCEPT !.url = row[Field(b.m[n], "column")]]])

\* Lines 141-149: every entry whose column the row has, with a cell that is
\* not the empty string, takes the cell as its url.
RowIntoButtons(b, row) ==
    Obj([n \in DOMAIN b.m |->
            LET col == Field(b.m[n], "column")
            IN  IF col \in DOMAIN row /\ row[col] # ""
                THEN [b.m[n] EXCEPT !.url = row[col]]
                ELSE b.m[n]])

\* The else branch without the getItem.
CacheNotRead(st) == [threw |-> FALSE, st |-> st]

\* The else branch of lines 155-163: only a response that is not ok reads
\* the cache.
CacheIntoButtons(st) ==
    LET got == [st EXCEPT !.read = TRUE]
    IN  IF st.cache.kind = "absent" THEN [threw |-> FALSE, st |-> got]
        ELSE IF Parse(st.cache).threw THEN [threw |-> TRUE, st |-> got]
        ELSE [threw |-> FALSE, st |-> [got EXCEPT !.buttons = Parse(st.cache).value]]

\* loadButtonData(), after `await fetch(...)` and `await response.json()`.
loadButtonData(st, res) ==
    CASE res.kind \in {"reject", "malformed"} ->
            \* the catch of line 170
            [st |-> st, ret |-> FALSE]
      [] res.kind = "http" ->
            IF CacheIntoButtons(st).threw
            THEN [st |-> CacheIntoButtons(st).st, ret |-> FALSE]
            ELSE [st  |-> IF OnAdminPage THEN CacheIntoButtons(st).st
                          ELSE Rendered(CacheIntoButtons(st).st),
                  ret |-> TRUE]
      [] OTHER ->
            IF Len(res.rows) > 0
            THEN IF st.buttons.null
                 THEN \* Object.entries(null) throws
                      [st |-> st, ret |-> FALSE]
                 ELSE LET b  == RowIntoButtons(st.buttons, res.rows[1])
                          s2 == [st EXCEPT !.buttons = b, !.cache = Stringify(b)]
                      IN  [st  |-> IF OnAdminPage THEN s2 ELSE Rendered(s2),
                           ret |-> TRUE]
            ELSE [st |-> IF OnAdminPage THEN st ELSE Rendered(st), ret |-> TRUE]

\* A merge in which the first load to supply a column wins: a url that is no
\* longer the default is kept.
RowIntoConfigFirstWins(b, row) ==
    Obj([n \in DOMAIN b.m |->
            LET col == Field(b.m[n], "column")
            IN  IF col \in DOMAIN row /\ b.m[n].url = "#"
                THEN [b.m[n] EXCEPT !.url = row[col]]
                ELSE b.m[n]])

\* Lines 99-107: every entry whose column the row has takes the cell as its url.
RowIntoConfig(b, row) ==
    Obj([n \in DOMAIN b.m |->
            LET col == Field(b.m[n], "column")
            IN  IF col \in DOMAIN row
                THEN [b.m[n] EXCEPT !.url = row[col]]
                ELSE b.m[n]])

HasUpdates(b, row) == \E n \in DOMAIN b.m : Field(b.m[n], "column") \in DOMAIN row

\* loadConfig(), after `await fetch(...)` and `await response.json()`.
loadConfig(st, res) ==
    IF res.kind \in {"reject", "http", "malformed"}
    THEN loadFromLocalStorage(st)
    ELSE IF Len(res.rows) > 0
         THEN IF st.buttons.null
              THEN \* Object.values(null) throws inside the try
                   loadFromLocalStorage(st)
              ELSE IF HasUpdates(st.buttons, res.rows[1])
                   THEN LET b == RowIntoConfig(st.buttons, res.rows[1])
                        IN  [st  |-> [st EXCEPT !.buttons = b, !.cache = Stringify(b)],
                             ret |-> TRUE]
                   ELSE [st |-> st, ret |-> FALSE]
         ELSE [st |-> st, ret |-> FALSE]

\* reload(): loadConfig() then updateButtons().
reload(st, res) == Rendered(loadConfig(st, res).st)

\* Lines 50-62 of init(): each .btn element whose second class names an entry
\* takes that entry's url and text.
ClickTargets(b) ==
    {e \in Elements :
        /\ HasClass(e, "btn")
        /\ Len(DomClasses[e]) >= 2
        /\ DomClasses[e][2] \in DOMAIN b.m}

InitButtons(b, d) ==
    [e \in Elements |->
        IF e \in ClickTargets(b)
        THEN [d[e] EXCEPT !.href = Field(b.m[DomClasses[e][2]], "url"),
                          !.text = Field(b.m[DomClasses[e][2]], "text")]
        ELSE d[e]]

\* init(), after `await this.loadButtonData()`. loadButtonData catches what it
\* throws, so the catch of line 43 is never entered; with this.buttons null
\* line 52 throws and the promise of init() rejects.
init(st, res) ==
    LET s1 == loadButtonData(st, res).st
        s2 == IF OnAdminPage THEN s1 ELSE Rendered(s1)
    IN  IF OnAdminPage THEN [st |-> s2, threw |-> FALSE, timer |-> FALSE]
        ELSE IF s2.buttons.null THEN [st |-> s2, threw |-> TRUE, timer |-> TRUE]
        ELSE [st    |-> [s2 EXCEPT !.dom = InitButtons(s2.buttons, s2.dom)],
              threw |-> FALSE,
              timer |-> TRUE]

\* Lines 286-287: the spread of the entry and the updates, then lastUpdated.
MergeFields(entry, updates) ==
    [f \in (DOMAIN entry) \cup (DOMAIN updates) \cup {"lastUpdated"} |->
        IF f = "lastUpdated" THEN "now"
        ELSE IF f \in DOMAIN updates THEN updates[f] ELSE entry[f]]

\* updateButton() without line 286.
MergeNothing(b, type, updates) == b

\* Line 286 assigns this.buttons[buttonType]: a name that was not a key
\* becomes one (after the others, and no element of the page has its class).
Merge(b, type, updates) ==
    Obj([n \in (DOMAIN b.m) \cup {type} |->
            IF n = type THEN MergeFields(SpreadOf(b, type), updates) ELSE b.m[n]])

\* Lines 320-326: the row a POST creates; reading the url of a missing entry
\* throws.
CanBuildPayload(b) == ~ b.null /\ Names \subseteq DOMAIN b.m

CreatePayload(b) ==
    [c \in Columns |->
        CASE c = "btn1" -> Field(b.m["primary"], "url")
          [] c = "btn2" -> Field(b.m["secondary"], "url")
          [] OTHER      -> Field(b.m["accent"], "url")]

Request(method, payload) == [method |-> method, payload |-> payload]
NoPayload == [c \in {} |-> ""]

\* Line 370 reads `rowId`, which nothing declares: the template literal throws
\* a ReferenceError before the PATCH of line 371 is issued.
PatchBranchThrows == TRUE


-----------------------------------------------------------------------------
(* Hosted-API ButtonManager: actions *)

\* What an earlier visit, another script or the user can have left under the
\* key: nothing, text that is not JSON, "null", an object with one entry, a
\* snapshot written by an earlier visit.
EarlierSnapshot ==
    Obj([DefaultEntries EXCEPT !["primary"].url = "u2", !["secondary"].url = "u1"])

InitialCaches ==
    { AbsentText, GarbageText, Stringify(Null),
      Stringify(Obj([n \in {"primary"} |-> [DefaultEntries[n] EXCEPT !.url = "u1"]])),
      Stringify(EarlierSnapshot) }

\* config.json as the site serves it.
StaticDocument == [ok |-> TRUE, buttons |-> [n \in Names |-> "s1"]]

PatchUrls == {"", "u2"}
Patches == {[url |-> u] : u \in PatchUrls}
UpdateNames == {"primary", "other", "constructor"}
NoArgs == [name |-> "", updates |-> [url |-> ""]]

ResKind(res) ==
    IF res.kind = "rows" THEN (IF Len(res.rows) > 0 THEN "rows" ELSE "empty") ELSE res.kind

Evt(op, res) == [op |-> op, res |-> res]

Cur == State(buttons, cache, dom, applied)

\* A step that consumed no response.
NoResponse == [kind |-> "none", rows |-> <<>>]

\* The loads whose fetch is in flight.
InFlight ==
    {l \in {"init", "poll", "reload"} :
        \/ l = "init" /\ initPc = "fetch"
        \/ l = "poll" /\ pollPc = "fetch"
        \/ l = "reload" /\ reloadPc = "fetch"}

\* The record of a step that resolves no load: its updateButtons() calls,
\* whether it read the cache, the response it consumed.
Did(calls, read, res) ==
    [calls |-> calls, read |-> read, res |-> res, raced |-> probe.raced, later |-> "",
     older |-> probe.older /\ updPc # "idle", failed |-> probe.failed]

\* Whether a response carries, for the button of the updateButton() call in
\* flight, a url that is not the one of the call's patch.
CarriesOlderUrl(res) ==
    /\ updPc # "idle"
    /\ res.kind = "rows"
    /\ Len(res.rows) > 0
    /\ HasKey(buttons, updArgs.name)
    /\ Field(buttons.m[updArgs.name], "column") \in DOMAIN res.rows[1]
    /\ res.rows[1][Field(buttons.m[updArgs.name], "column")] # updArgs.updates.url

\* The record of the step that resolves load `me`: the loads still in flight
\* have now seen the response of `me` arrive first (raced), and when `me` was
\* itself overtaken, it is the later of two overlapping loads: `later` names
\* the load whose response came first ("" when there was none).
DidLoad(calls, read, res, me) ==
    [calls |-> calls, read |-> read, res |-> res,
     raced |-> {<<l, me>> : l \in InFlight \ {me}},
     later |-> IF \E r \in probe.raced : r[1] = me
               THEN (CHOOSE r \in probe.raced : r[1] = me)[2]
               ELSE "",
     older |-> /\ updPc # "idle"
               /\ probe.older \/ (me \in {"poll", "reload"} /\ CarriesOlderUrl(res)),
     failed |-> probe.failed \/ (me = "poll" /\ res.kind \in {"reject", "http", "malformed"})]

Put(state, did) ==
    \E st \in {state} :
        /\ buttons' = st.buttons
        /\ cache' = st.cache
        /\ dom' = st.dom
        /\ applied' = st.applied
        /\ probe' = [did EXCEPT !.calls = st.calls, !.read = st.read]

\* The fetch of init()'s loadButtonData() settles; init() runs to its end.
InitResolve ==
    /\ initPc = "fetch"
    /\ \E res \in GetResponses :
        \E r \in {init(Cur, res)} :
            /\ Put(r.st, DidLoad(0, FALSE, res, "init"))
            /\ pollOn' = r.timer
            /\ initPc' = IF r.threw THEN "threw" ELSE "done"
            /\ hEvt' = Evt("init", ResKind(res))
    /\ UNCHANGED <<staticFile, pollPc, reloadPc, updPc, updArgs, updRet, reqs, ops>>
    /\ UNCHANGED <<gateVars, staticVars, bench>>

\* The interval fires: loadButtonData() runs up to its fetch.
PollStart ==
    /\ pollOn
    /\ pollPc = "idle"
    /\ ops < MaxOps
    /\ ops' = ops + 1
    /\ pollPc' = "fetch"
    /\ hEvt' = Evt("pollStart", "")
    /\ probe' = Did(0, FALSE, NoResponse)
    /\ UNCHANGED <<buttons, cache, dom, applied, staticFile, pollOn, initPc, reloadPc,
                   updPc, updArgs, updRet, reqs>>
    /\ UNCHANGED <<gateVars, staticVars, bench>>

PollResolve ==
    /\ pollPc = "fetch"
    /\ \E res \in GetResponses :
        /\ Put(loadButtonData(Cur, res).st, DidLoad(0, FALSE, res, "poll"))
        /\ hEvt' = Evt("poll", ResKind(res))
    /\ pollPc' = "idle"
    /\ UNCHANGED <<staticFile, pollOn, initPc, reloadPc, updPc, updArgs, updRet, reqs, ops>>
    /\ UNCHANGED <<gateVars, staticVars, bench>>

\* reload() runs up to the fetch of loadConfig().
ReloadStart ==
    /\ reloadPc = "idle"
    /\ ops < MaxOps
    /\ ops' = ops + 1
    /\ reloadPc' = "fetch"
    /\ hEvt' = Evt("reloadStart", "")
    /\ probe' = Did(0, FALSE, NoResponse)
    /\ UNCHANGED <<buttons, cache, dom, applied, staticFile, pollOn, initPc, pollPc,
                   updPc, updArgs, updRet, reqs>>
    /\ UNCHANGED <<gateVars, staticVars, bench>>

ReloadResolve ==
    /\ reloadPc = "fetch"
    /\ \E res \in GetResponses :
        /\ Put(reload(Cur, res), DidLoad(0, FALSE, res, "reload"))
        /\ hEvt' = Evt("reload", ResKind(res))
    /\ reloadPc' = "idle"
    /\ UNCHANGED <<staticFile, pollOn, initPc, pollPc, updPc, updArgs, updRet, reqs, ops>>
    /\ UNCHANGED <<gateVars, staticVars, bench>>

\* updateButton(buttonType, updates) up to the fetch of line 301.
UpdateStart ==
    /\ updPc = "idle"
    /\ ops < MaxOps
    /\ ops' = ops + 1
    /\ \E name \in UpdateNames, updates \in Patches :
        /\ updArgs' = [name |-> name, updates |-> updates]
        /\ IF buttons.null
           THEN \* this.buttons[buttonType] throws; the promise rejects
                /\ updRet' = "threw"
                /\ hEvt' = Evt("updateStart", "threw")
                /\ probe' = Did(0, FALSE, NoResponse)
                /\ UNCHANGED <<buttons, cache, dom, applied, updPc, reqs>>
           ELSE IF ~ HasEntry(buttons, name)
           THEN /\ updRet' = "false"
                /\ hEvt' = Evt("updateStart", "unknown")
                /\ probe' = Did(0, FALSE, NoResponse)
                /\ UNCHANGED <<buttons, cache, dom, applied, updPc, reqs>>
           ELSE /\ Put(Rendered([Cur EXCEPT !.buttons = Merge(buttons, name, updates)]),
                       Did(0, FALSE, NoResponse))
                /\ reqs' = << Request("GET", NoPayload) >>
                /\ updPc' = "get"
                /\ updRet' = "none"
                /\ hEvt' = Evt("updateStart", "get")
    /\ UNCHANGED <<staticFile, pollOn, initPc, pollPc, reloadPc>>
    /\ UNCHANGED <<gateVars, staticVars, bench>>

\* The catch of lines 392-398.
UpdateFails(res) ==
    /\ cache' = Stringify(buttons)
    /\ updRet' = "false"
    /\ updPc' = "idle"
    /\ hEvt' = Evt("updateGet", res)
    /\ probe' = Did(0, FALSE, NoResponse)
    /\ UNCHANGED <<buttons, dom, applied, reqs>>

\* The GET of line 301 settles and its text is read.
UpdateGetResolve ==
    /\ updPc = "get"
    /\ \E res \in GetResponses :
        IF res.kind \in {"reject", "http", "malformed"}
        THEN UpdateFails(res.kind)
        ELSE IF Len(res.rows) = 0
        THEN IF CanBuildPayload(buttons)
             THEN /\ reqs' = Append(reqs, Request("POST", CreatePayload(buttons)))
                  /\ updPc' = "post"
                  /\ hEvt' = Evt("updateGet", "empty")
                  /\ probe' = Did(0, FALSE, NoResponse)
                  /\ UNCHANGED <<buttons, cache, dom, applied, updRet>>
             ELSE UpdateFails("empty")
        ELSE IF PatchBranchThrows
        THEN UpdateFails("rows")
        ELSE /\ reqs' = Append(reqs, Request("PATCH", res.rows[1]))
             /\ updPc' = "post"
             /\ hEvt' = Evt("updateGet", "rows")
             /\ probe' = Did(0, FALSE, NoResponse)
             /\ UNCHANGED <<buttons, cache, dom, applied, updRet>>
    /\ UNCHANGED <<staticFile, pollOn, initPc, pollPc, reloadPc, updArgs, ops>>
    /\ UNCHANGED <<gateVars, staticVars, bench>>

\* The POST of line 329 settles and its text is read.
UpdateWriteResolve ==
    /\ updPc = "post"
    /\ \E w \in WriteResponses :
        /\ cache' = Stringify(buttons)
        /\ updRet' = IF w = "ok" THEN "true" ELSE "false"
        /\ hEvt' = Evt("updateWrite", w)
        /\ probe' = Did(0, FALSE, NoResponse)
    /\ updPc' = "idle"
    /\ UNCHANGED <<buttons, dom, applied, reqs>>
    /\ UNCHANGED <<staticFile, pollOn, initPc, pollPc, reloadPc, updArgs, ops>>
    /\ UNCHANGED <<gateVars, staticVars, bench>>

HostedNext ==
    \/ InitResolve
    \/ PollStart
    \/ PollResolve
    \/ ReloadStart
    \/ ReloadResolve
    \/ UpdateStart
    \/ UpdateGetResolve
    \/ UpdateWriteResolve

-----------------------------------------------------------------------------
(* Static-file ButtonManager (script.js): data *)

\* An entry of the buttons object of a document; description is "" when the
\* entry has none.
Entry(name, text, url, description) ==
    [name |-> name, text |-> text, url |-> url, description |-> description]

\* A value this.config can hold: undefined (before the first loadConfig()), a
\* parsed body without a buttons object (such as {} or null), or a document
\* whose buttons object has its keys in the order of the file.
NoConfig == [kind |-> "undefined", buttons |-> <<>>]
NoButtonsDoc == [kind |-> "nobuttons", buttons |-> <<>>]
Doc(entries) == [kind |-> "doc", buttons |-> entries]

\* The catch of loadConfig().
BuiltInDefault ==
    Doc(<< Entry("primary", "Get Started", "#", ""),
           Entry("secondary", "Learn More", "#", ""),
           Entry("accent", "Join Now", "#", "") >>)

\* JSON.stringify of a config: the keys and values in the object's key order.
RECURSIVE EntriesText(_, _)
EntriesText(entries, i) ==
    IF i > Len(entries) THEN <<>>
    ELSE << entries[i].name, entries[i].text, entries[i].url, entries[i].description >>
         \o EntriesText(entries, i + 1)

JsonText(c) == << c.kind >> \o EntriesText(c.buttons, 1)

\* The buttons object of a config as a mapping, whatever the key order.
ButtonsOf(c) ==
    [n \in {c.buttons[i].name : i \in 1..Len(c.buttons)} |->
        LET i == CHOOSE j \in 1..Len(c.buttons) : c.buttons[j].name = n
        IN  [text |-> c.buttons[i].text, url |-> c.buttons[i].url,
             description |-> c.buttons[i].description]]

\* What config.json can be: two buttons, the same document with its keys in
\* the other order, one button with a description, a body without buttons.
DocA == Doc(<< Entry("primary", "Start", "s1", ""), Entry("secondary", "More", "s2", "") >>)
DocASwapped ==
    Doc(<< Entry("secondary", "More", "s2", ""), Entry("primary", "Start", "s1", "") >>)
DocB == Doc(<< Entry("primary", "Start", "s3", "tip") >>)

StaticDocs == {DocA, DocASwapped, DocB, NoButtonsDoc}

\* How a fetch of config.json and the reading of its body end.
StaticFailure(k) == [kind |-> k, doc |-> NoConfig]
StaticResponses ==
    {StaticFailure(k) : k \in {"reject", "http", "malformed"}}
    \cup {[kind |-> "doc", doc |-> d] : d \in StaticDocs}

-----------------------------------------------------------------------------
(* Static-file ButtonManager (script.js): the methods *)

\* document.querySelector(`.btn.${buttonType}`): the first element in document
\* order with both classes, if any.
FirstMatch(page, type) ==
    LET both == {e \in DOMAIN page : HasClassOn(page, e, "btn") /\ HasClassOn(page, e, type)}
    IN  IF both = {} THEN {} ELSE {CHOOSE e \in both : \A f \in both : e <= f}

\* The body of updateButtons' forEach for one key.
StaticRenderEntry(page, d, entry) ==
    [e \in DOMAIN page |->
        IF e \in FirstMatch(page, entry.name)
        THEN [href  |-> entry.url,
              text  |-> entry.text,
              title |-> IF entry.description # "" THEN entry.description ELSE d[e].title]
        ELSE d[e]]

\* Object.keys(buttons).forEach, from the i-th key on.
RECURSIVE StaticRenderFrom(_, _, _, _)
StaticRenderFrom(page, d, entries, i) ==
    IF i > Len(entries) THEN d
    ELSE StaticRenderFrom(page, StaticRenderEntry(page, d, entries[i]), entries, i + 1)

\* updateButtons(): reading this.config.buttons of undefined, or the keys of an
\* undefined buttons, throws a TypeError.
staticUpdateButtons(page, c, d) ==
    IF c.kind # "doc" THEN [dom |-> d, threw |-> TRUE]
    ELSE [dom |-> StaticRenderFrom(page, d, c.buttons, 1), threw |-> FALSE]

\* loadConfig() whose catch leaves a config that was already loaded.
LoadConfigKeepingLoaded(c, res) ==
    IF res.kind = "doc" THEN res.doc
    ELSE IF c.kind = "undefined" THEN BuiltInDefault ELSE c

\* loadConfig(), after `await fetch(...)` and `await response.json()`, with c
\* the config before it.
staticLoadConfig(c, res) ==
    IF res.kind = "doc" THEN res.doc ELSE BuiltInDefault

\* The callback of setupConfigWatcher(), after its fetch and body read.
watcherTick(c, d, res) ==
    IF res.kind = "doc" /\ JsonText(res.doc) # JsonText(c)
    THEN [config |-> res.doc,
          dom    |-> staticUpdateButtons(DomClasses, res.doc, d).dom,
          calls  |-> 1]
    ELSE [config |-> c, dom |-> d, calls |-> 0]

\* Line 127: the spread of the entry and the new fields.
ConfigWith(c, type, url) ==
    Doc([i \in 1..Len(c.buttons) |->
            IF c.buttons[i].name = type THEN [c.buttons[i] EXCEPT !.url = url]
            ELSE c.buttons[i]])

HasButton(c, type) == \E i \in 1..Len(c.buttons) : c.buttons[i].name = type

-----------------------------------------------------------------------------
(* Static-file ButtonManager (script.js): actions *)

ConfigNames == {"primary", "other"}
ConfigUrls == {"s9"}

\* The record of a step: the operation, how its fetch ended and with what
\* document, its updateButtons() calls, whether it threw, the config before.
SEvt(op, res, calls, threw) ==
    [op |-> op, res |-> res.kind, doc |-> res.doc, calls |-> calls, threw |-> threw,
     before |-> config]

\* The fetch of init()'s loadConfig() settles; init() runs to its end. When
\* updateButtons() throws, the catch of line 20 is entered before line 19.
StaticInitResolve ==
    /\ sPc.init = "fetch"
    /\ \E res \in StaticResponses :
        \E c \in {staticLoadConfig(config, res)} :
            \E r \in {staticUpdateButtons(DomClasses, c, sdom)} :
                /\ config' = c
                /\ sdom' = r.dom
                /\ watchOn' = ~ r.threw
                /\ sEvt' = SEvt("init", res, 1, FALSE)
    /\ sPc' = [sPc EXCEPT !.init = "done"]
    /\ UNCHANGED sOps
    /\ UNCHANGED <<gateVars, hostedVars, bench>>

\* The interval fires: the callback runs up to its fetch.
WatchStart ==
    /\ watchOn
    /\ sPc.watch = "idle"
    /\ sOps < MaxOps
    /\ sOps' = sOps + 1
    /\ sPc' = [sPc EXCEPT !.watch = "fetch"]
    /\ sEvt' = SEvt("watchStart", StaticFailure("none"), 0, FALSE)
    /\ UNCHANGED <<config, sdom, watchOn>>
    /\ UNCHANGED <<gateVars, hostedVars, bench>>

WatchResolve ==
    /\ sPc.watch = "fetch"
    /\ \E res \in StaticResponses :
        \E r \in {watcherTick(config, sdom, res)} :
            /\ config' = r.config
            /\ sdom' = r.dom
            /\ sEvt' = SEvt("watch", res, r.calls, FALSE)
    /\ sPc' = [sPc EXCEPT !.watch = "idle"]
    /\ UNCHANGED <<watchOn, sOps>>
    /\ UNCHANGED <<gateVars, hostedVars, bench>>

\* reload() runs up to the fetch of loadConfig().
StaticReloadStart ==
    /\ sPc.reload = "idle"
    /\ sOps < MaxOps
    /\ sOps' = sOps + 1
    /\ sPc' = [sPc EXCEPT !.reload = "fetch"]
    /\ sEvt' = SEvt("reloadStart", StaticFailure("none"), 0, FALSE)
    /\ UNCHANGED <<config, sdom, watchOn>>
    /\ UNCHANGED <<gateVars, hostedVars, bench>>

\* The fetch settles: loadConfig() ends and reload() calls updateButtons(),
\* whose TypeError rejects the promise of reload().
StaticReloadResolve ==
    /\ sPc.reload = "fetch"
    /\ \E res \in StaticResponses :
        \E c \in {staticLoadConfig(config, res)} :
            \E r \in {staticUpdateButtons(DomClasses, c, sdom)} :
                /\ config' = c
                /\ sdom' = r.dom
                /\ sEvt' = SEvt("reload", res, 1, r.threw)
    /\ sPc' = [sPc EXCEPT !.reload = "idle"]
    /\ UNCHANGED <<watchOn, sOps>>
    /\ UNCHANGED <<gateVars, hostedVars, bench>>

\* updateButtonConfig(buttonType, {url}): throws on a config without a buttons
\* object; merges and renders for a key of it; logs an error otherwise.
CallUpdateButtonConfig ==
    /\ sOps < MaxOps
    /\ sOps' = sOps + 1
    /\ \E type \in ConfigNames, url \in ConfigUrls :
        IF config.kind # "doc"
        THEN /\ sEvt' = SEvt("updateButtonConfig", StaticFailure("none"), 0, TRUE)
             /\ UNCHANGED <<config, sdom>>
        ELSE IF HasButton(config, type)
        THEN \E c \in {ConfigWith(config, type, url)} :
                /\ config' = c
                /\ sdom' = staticUpdateButtons(DomClasses, c, sdom).dom
                /\ sEvt' = SEvt("updateButtonConfig", StaticFailure("none"), 1, FALSE)
        ELSE /\ sEvt' = SEvt("updateButtonConfig", StaticFailure("none"), 0, FALSE)
             /\ UNCHANGED <<config, sdom>>
    /\ UNCHANGED <<watchOn, sPc>>
    /\ UNCHANGED <<gateVars, hostedVars, bench>>

StaticNext ==
    \/ StaticInitResolve
    \/ WatchStart
    \/ WatchResolve
    \/ StaticReloadStart
    \/ StaticReloadResolve
    \/ CallUpdateButtonConfig

-----------------------------------------------------------------------------
(* updateButtons() of both managers, applied to a given page *)

\* The pages updateButtons() is applied to: the class lists of their elements.
\* No element for primary, two for secondary, one of them also accent's.
PageWithoutPrimary == << <<"btn", "secondary">>, <<"btn", "secondary", "accent">> >>

\* One element for both primary and secondary, accent by its class alone.
PageSharedElement == << <<"btn", "primary", "secondary">>, <<"accent">> >>

BenchPages == {DomClasses, PageWithoutPrimary, PageSharedElement}

\* Entries as this.buttons can hold them: with and without url, displayText
\* and description.
BenchEntries ==
    { [text |-> "t1", url |-> "u1", column |-> "btn1", displayText |-> "d1"],
      [text |-> "t2", url |-> "", column |-> "btn2", displayText |-> ""],
      [text |-> "t3", url |-> "u2", column |-> "btn3", displayText |-> "",
       description |-> "tip"] }

BenchSnapshots ==
    {Null} \cup {Obj(m) : m \in [Names -> BenchEntries]}
    \cup {Obj(m) : m \in [{"secondary"} -> BenchEntries]}

BenchConfigs ==
    { NoConfig, NoButtonsDoc, BuiltInDefault, DocA, DocASwapped, DocB,
      Doc(<< Entry("accent", "Join", "s4", "tip"), Entry("secondary", "More", "s2", "") >>) }

\* The attributes the page's markup gives its elements.
BenchDoms(page) ==
    { [e \in DOMAIN page |-> [href |-> "html", text |-> "html", title |-> t]] :
        t \in {"", "old"} }

\* No page is under test.
BenchIdle ==
    [kind |-> "none", page |-> DomClasses, b |-> Null, c |-> NoConfig,
     start |-> HtmlDom, dom |-> HtmlDom, prev |-> HtmlDom, passes |-> 0, threw |-> FALSE]

Bench(kind, page, b, c, d) ==
    [kind |-> kind, page |-> page, b |-> b, c |-> c,
     start |-> d, dom |-> d, prev |-> d, passes |-> 0, threw |-> FALSE]

\* The hosted-API manager's updateButtons() runs on the page.
ApplyHosted ==
    /\ bench.kind = "hosted"
    /\ bench.passes < MaxPasses
    /\ bench' = [bench EXCEPT !.prev = bench.dom,
                              !.dom = updateButtonsOn(bench.page, bench.b, bench.dom),
                              !.passes = @ + 1]
    /\ UNCHANGED <<gateVars, hostedVars, staticVars>>

\* The static-file manager's updateButtons() runs on the page.
ApplyStatic ==
    /\ bench.kind = "static"
    /\ bench.passes < MaxPasses
    /\ \E r \in {staticUpdateButtons(bench.page, bench.c, bench.dom)} :
        bench' = [bench EXCEPT !.prev = bench.dom,
                               !.dom = r.dom,
                               !.threw = r.threw,
                               !.passes = @ + 1]
    /\ UNCHANGED <<gateVars, hostedVars, staticVars>>

RenderNext ==
    \/ ApplyHosted
    \/ ApplyStatic

-----------------------------------------------------------------------------
(* Specifications *)

\* The script of a page has just loaded: no marker is stored, and the button
\* manager has just been constructed.
Init ==
    /\ authStore = Absent
    /\ now = 0
    /\ pathname = <<"/">>
    /\ nav = ""
    /\ authRet = JSFalse
    /\ authThrew = FALSE
    /\ loginArgs = <<"", "">>
    /\ loginRet = Unauthenticated
    /\ lastOp = "init"
    /\ buttons = Defaults
    /\ cache = AbsentText
    /\ dom = HtmlDom
    /\ applied = Null
    /\ staticFile = StaticDocument
    /\ pollOn = FALSE
    /\ initPc = "fetch"
    /\ pollPc = "idle"
    /\ reloadPc = "idle"
    /\ updPc = "idle"
    /\ updArgs = NoArgs
    /\ updRet = "none"
    /\ reqs = <<>>
    /\ ops = 0
    /\ hEvt = Evt("new", "")
    /\ probe = [calls |-> 0, read |-> FALSE, res |-> NoResponse, raced |-> {},
                later |-> "", older |-> FALSE, failed |-> FALSE]
    /\ config = NoConfig
    /\ sdom = HtmlDom
    /\ watchOn = FALSE
    /\ sPc = [init |-> "fetch", watch |-> "idle", reload |-> "idle"]
    /\ sOps = 0
    /\ sEvt = [op |-> "new", res |-> "none", doc |-> NoConfig, calls |-> 0,
               threw |-> FALSE, before |-> NoConfig]
    /\ bench = BenchIdle

\* new ButtonManager(): the defaults, and init() running up to its first await.
\* The session gate is at rest beside it.
HostedInit ==
    /\ buttons = Defaults
    /\ cache \in InitialCaches
    /\ dom = HtmlDom
    /\ applied = Null
    /\ staticFile = StaticDocument
    /\ pollOn = FALSE
    /\ initPc = "fetch"
    /\ pollPc = "idle"
    /\ reloadPc = "idle"
    /\ updPc = "idle"
    /\ updArgs = NoArgs
    /\ updRet = "none"
    /\ reqs = <<>>
    /\ ops = 0
    /\ hEvt = Evt("new", "")
    /\ probe = [calls |-> 0, read |-> FALSE, res |-> NoResponse, raced |-> {},
                later |-> "", older |-> FALSE, failed |-> FALSE]
    /\ config = NoConfig
    /\ sdom = HtmlDom
    /\ watchOn = FALSE
    /\ sPc = [init |-> "fetch", watch |-> "idle", reload |-> "idle"]
    /\ sOps = 0
    /\ sEvt = [op |-> "new", res |-> "none", doc |-> NoConfig, calls |-> 0,
               threw |-> FALSE, before |-> NoConfig]
    /\ bench = BenchIdle
    /\ authStore = Absent
    /\ now = 0
    /\ pathname = <<"/">>
    /\ nav = ""
    /\ authRet = JSFalse
    /\ authThrew = FALSE
    /\ loginArgs = <<"", "">>
    /\ loginRet = Unauthenticated
    /\ lastOp = "init"

\* new ButtonManager() of script.js: init() running up to its first await.
StaticInit ==
    /\ config = NoConfig
    /\ sdom = HtmlDom
    /\ watchOn = FALSE
    /\ sPc = [init |-> "fetch", watch |-> "idle", reload |-> "idle"]
    /\ sOps = 0
    /\ sEvt = [op |-> "new", res |-> "none", doc |-> NoConfig, calls |-> 0,
               threw |-> FALSE, before |-> NoConfig]
    /\ bench = BenchIdle
    /\ authStore = Absent
    /\ now = 0
    /\ pathname = <<"/">>
    /\ nav = ""
    /\ authRet = JSFalse
    /\ authThrew = FALSE
    /\ loginArgs = <<"", "">>
    /\ loginRet = Unauthenticated
    /\ lastOp = "init"
    /\ buttons = Defaults
    /\ cache = AbsentText
    /\ dom = HtmlDom
    /\ applied = Null
    /\ staticFile = StaticDocument
    /\ pollOn = FALSE
    /\ initPc = "fetch"
    /\ pollPc = "idle"
    /\ reloadPc = "idle"
    /\ updPc = "idle"
    /\ updArgs = NoArgs
    /\ updRet = "none"
    /\ reqs = <<>>
    /\ ops = 0
    /\ hEvt = Evt("new", "")
    /\ probe = [calls |-> 0, read |-> FALSE, res |-> NoResponse, raced |-> {},
                later |-> "", older |-> FALSE, failed |-> FALSE]

\* A page, a snapshot of either manager and the attributes of the page's
\* elements, before updateButtons() is applied.
RenderInit ==
    /\ bench \in
          {Bench("hosted", p, b, NoConfig, d) :
              <<p, b, d>> \in {<<p, b, d>> \in BenchPages \X BenchSnapshots \X
                                  UNION {BenchDoms(q) : q \in BenchPages} :
                                  DOMAIN d = DOMAIN p}}
          \cup
          {Bench("static", p, Null, c, d) :
              <<p, c, d>> \in {<<p, c, d>> \in BenchPages \X BenchConfigs \X
                                  UNION {BenchDoms(q) : q \in BenchPages} :
                                  DOMAIN d = DOMAIN p}}
    /\ config = NoConfig
    /\ sdom = HtmlDom
    /\ watchOn = FALSE
    /\ sPc = [init |-> "fetch", watch |-> "idle", reload |-> "idle"]
    /\ sOps = 0
    /\ sEvt = [op |-> "new", res |-> "none", doc |-> NoConfig, calls |-> 0,
               threw |-> FALSE, before |-> NoConfig]
    /\ authStore = Absent
    /\ now = 0
    /\ pathname = <<"/">>
    /\ nav = ""
    /\ authRet = JSFalse
    /\ authThrew = FALSE
    /\ loginArgs = <<"", "">>
    /\ loginRet = Unauthenticated
    /\ lastOp = "init"
    /\ buttons = Defaults
    /\ cache = AbsentText
    /\ dom = HtmlDom
    /\ applied = Null
    /\ staticFile = StaticDocument
    /\ pollOn = FALSE
    /\ initPc = "fetch"
    /\ pollPc = "idle"
    /\ reloadPc = "idle"
    /\ updPc = "idle"
    /\ updArgs = NoArgs
    /\ updRet = "none"
    /\ reqs = <<>>
    /\ ops = 0
    /\ hEvt = Evt("new", "")
    /\ probe = [calls |-> 0, read |-> FALSE, res |-> NoResponse, raced |-> {},
                later |-> "", older |-> FALSE, failed |-> FALSE]

Next == GateNext

Spec == Init /\ [][Next]_vars

HostedSpec == HostedInit /\ [][HostedNext]_vars

StaticSpec == StaticInit /\ [][StaticNext]_vars

RenderSpec == RenderInit /\ [][RenderNext]_vars

-----------------------------------------------------------------------------
(* Session gate: claims *)

IsMarkerObject(stored) == stored.kind = "object"

\* A marker with its three fields, whose expires is before the clock.
ExpiredMarker(stored, clock) ==
    /\ IsMarkerObject(stored)
    /\ stored.obj.username # Undefined
    /\ stored.obj.token # Undefined
    /\ stored.obj.expires.valid /\ stored.obj.expires.ms < clock

ValidMarker(stored, clock) ==
    /\ IsMarkerObject(stored)
    /\ Truthy(stored.obj.username)
    /\ Truthy(stored.obj.token)
    /\ stored.obj.expires.valid /\ stored.obj.expires.ms > clock

\* Absent, unparseable, or parseable but lacking a field of a marker.
MalformedMarker(stored) ==
    \/ stored.kind \in {"absent", "garbage", "null", "prim"}
    \/ /\ IsMarkerObject(stored)
       /\ \/ stored.obj.username = Undefined
          \/ stored.obj.token = Undefined
          \/ ~ stored.obj.expires.valid

\* C1: after isAuthenticated() has run on a stored marker, the value it
\* returned is false when the marker's expires is in the past, and true when
\* the marker has a username, a token and an expires in the future.
C1_ExpiryDecides ==
    lastOp = "isAuthenticated" =>
        /\ (ExpiredMarker(authStore, now) => authRet = JSFalse)
        /\ (ValidMarker(authStore, now) => authRet = JSTrue)

\* C2: after isAuthenticated() has run on an absent or malformed marker, it
\* returned false and let no exception escape.
C2_MalformedIsFalse ==
    (lastOp = "isAuthenticated" /\ MalformedMarker(authStore)) =>
        (authRet = JSFalse /\ ~ authThrew)

\* C3: authenticate(username, password) returns an authenticated result with
\* role "admin" exactly for the pair ("admin", the configured password), and
\* the unauthenticated result for every other pair.
C3_OnlyAdminAuthenticates ==
    lastOp = "authenticate" =>
        IF loginArgs = <<"admin", AdminPassword>>
        THEN loginRet.authenticated /\ loginRet.role = "admin"
        ELSE loginRet = Unauthenticated

C3_Witness ==
    lastOp = "authenticate" /\ loginRet.authenticated /\ loginArgs[1] = "admin"

\* C4: a script load navigates to login.html exactly when the page is not the
\* login page and isAuthenticated() is falsy there; the login page and
\* authenticated pages perform no navigation.
C4_GuardRedirect ==
    lastOp = "load" =>
        /\ (~ OnLoginPage(pathname) /\ ~ Truthy(isAuthenticated(authStore, now).value))
               => nav = LoginPage
        /\ (OnLoginPage(pathname) \/ Truthy(isAuthenticated(authStore, now).value))
               => nav = ""

C4_Witness ==
    /\ lastOp = "load"
    /\ pathname = <<"/", "admin.html">>
    /\ authStore.kind = "object" /\ ExpiredMarker(authStore, now)
    /\ nav = LoginPage

\* C5: logout() leaves no marker in storage and navigates to the login page;
\* while no marker is stored isAuthenticated() returns false and every load of
\* a page other than the login page redirects to it; and a marker reappears
\* only by somebody storing one.
C5_LogoutEndsSession ==
    /\ [](lastOp = "logout" => (authStore = Absent /\ nav = LoginPage))
    /\ [][(authStore = Absent /\ lastOp' = "isAuthenticated")
             => (authRet' = JSFalse /\ ~ authThrew')]_vars
    /\ [][(authStore = Absent /\ lastOp' = "load" /\ ~ OnLoginPage(pathname'))
             => nav' = LoginPage]_vars
    /\ [][(authStore = Absent /\ authStore' # Absent) => lastOp' = "store"]_vars

C5_Witness ==
    /\ lastOp = "load"
    /\ authStore = Absent
    /\ pathname = <<"/", "index.html">>
    /\ nav = LoginPage
    /\ authRet = JSTrue

\* C19: authenticate() leaves the stored marker as it was for every pair,
\* returns what the pair alone determines, and does not turn a falsy
\* isAuthenticated() into a truthy one, even when the pair matches.
C19_AuthenticateLeavesStorage ==
    [][lastOp' = "authenticate" =>
          /\ authStore' = authStore
          /\ loginRet' = authenticate(loginArgs'[1], loginArgs'[2])
          /\ ~ Truthy(isAuthenticated(authStore, now).value)
                => ~ Truthy(isAuthenticated(authStore', now').value)]_vars

C19_Witness ==
    /\ lastOp = "authenticate"
    /\ loginArgs = <<"admin", AdminPassword>>
    /\ loginRet.authenticated
    /\ authStore = Absent
    /\ ~ Truthy(isAuthenticated(authStore, now).value)

-----------------------------------------------------------------------------
(* Hosted-API ButtonManager: claims *)

LoadOps == {"init", "poll", "reload"}
RemoteFailures == {"reject", "http", "malformed"}

\* A load has just finished and its remote source failed.
LoadFailed == hEvt.op \in LoadOps /\ hEvt.res \in RemoteFailures

HasAllKeys(b) == ~ b.null /\ Names \subseteq DOMAIN b.m

CacheHoldsObject == cache.kind = "json" /\ ~ cache.val.null

\* C6: in every reachable state the in-memory button map has the keys
\* primary, secondary and accent.
C6_AllKeysPresent == HasAllKeys(buttons)

\* C7: after a load whose remote source failed (non-2xx, rejected fetch or
\* malformed body), the snapshot applied to the DOM is the cached snapshot
\* when the cache holds one, and the built-in default when the cache is empty.
C7_FailureFallsBack ==
    LoadFailed =>
        /\ (cache.kind = "json" /\ HasAllKeys(cache.val)) => applied = cache.val
        /\ cache.kind = "absent" => applied = Defaults

C9_HrefIsPatchUrl ==
    (hEvt.op = "updateStart" /\ updArgs.name \in Names) =>
        /\ HasKey(buttons, updArgs.name)
        /\ buttons.m[updArgs.name].url = updArgs.updates.url
        /\ \A e \in Targets(updArgs.name) : dom[e].href = updArgs.updates.url

\* C9 as amended: for a name that is a key of the in-memory map, the step
\* that issues the first request has merged the patch into the entry and has
\* set the href of the button's elements to the url when it is not empty (an
\* empty url leaves the href as it was); the later steps of the call, whether
\* the persist succeeds or fails, change neither the map nor the DOM.
C9_OptimisticUpdate ==
    /\ [][(hEvt' = Evt("updateStart", "get") /\ HasKey(buttons, updArgs'.name)) =>
            /\ reqs' = << Request("GET", NoPayload) >>
            /\ buttons'.m[updArgs'.name].url = updArgs'.updates.url
            /\ \A e \in Targets(updArgs'.name) :
                  dom'[e].href = IF updArgs'.updates.url # ""
                                 THEN updArgs'.updates.url
                                 ELSE dom[e].href]_vars
    /\ [][hEvt'.op \in {"updateGet", "updateWrite"} =>
            (dom' = dom /\ buttons' = buttons /\ applied' = applied)]_vars

C9_Witness ==
    /\ hEvt = Evt("updateGet", "http")
    /\ updRet = "false"
    /\ updArgs = [name |-> "primary", updates |-> [url |-> "u2"]]
    /\ dom[1].href = "u2"
    /\ buttons.m["primary"].url = "u2"

\* C10: when the GET of updateButton returns no rows the call issues one POST
\* whose row has the three button urls; when it returns a row the call issues
\* one PATCH; and when the write is answered 2xx the call returns true.
C10_CreateOrPatch ==
    /\ hEvt = Evt("updateGet", "rows") =>
          (Len(reqs) = 2 /\ reqs[2].method = "PATCH")
    /\ (hEvt = Evt("updateGet", "empty") /\ HasAllKeys(buttons)) =>
          (Len(reqs) = 2 /\ reqs[2] = Request("POST", CreatePayload(buttons)))
    /\ hEvt = Evt("updateWrite", "ok") => updRet = "true"

\* The GET or the POST of updateButton has just failed: the fetch was
\* rejected, the response was not 2xx, or the body of the GET was not JSON.
WriteFailed ==
    /\ hEvt.op \in {"updateGet", "updateWrite"}
    /\ hEvt.res \in RemoteFailures

\* C11: when the remote write of updateButton(name, patch) fails (rejected
\* fetch, non-2xx response, body that is not JSON) the call returns false, the
\* entry still carries the patched url, the elements of the button still have
\* it as href, and the cache holds the snapshot with the patch merged.
C11_WriteFailureKeepsMerge ==
    WriteFailed =>
        /\ updRet = "false"
        /\ HasKey(buttons, updArgs.name)
        /\ buttons.m[updArgs.name].url = updArgs.updates.url
        /\ updArgs.updates.url # "" =>
              \A e \in Targets(updArgs.name) : dom[e].href = updArgs.updates.url
        /\ cache = Stringify(buttons)

\* C12: a poll tick calls updateButtons() only when the snapshot it fetched
\* differs from the one applied before the tick; a tick that fetched what is
\* already applied calls it not at all.
C12_PollSyncsOnlyOnChange ==
    [][hEvt'.op = "poll" => (probe'.calls > 0 => buttons' # applied)]_vars

\* C14: a remote update that succeeded has written the in-memory snapshot to
\* the cache, and the cache is read only by a load whose remote fetch failed:
\* a load whose fetch returned rows (or none) does not read it.
C14_CacheReadOnlyOnFailure ==
    /\ hEvt = Evt("updateWrite", "ok") => cache = Stringify(buttons)
    /\ probe.read => LoadFailed

\* A load has just consumed a response with at least one row, with the
\* in-memory map an object before it.
LoadedRow ==
    /\ hEvt'.op \in LoadOps
    /\ hEvt'.res = "rows"
    /\ ~ buttons.null

\* C15 as claimed: a load that consumed a row has set the url of exactly
\* the buttons whose column the row has, and has left every other entry and
\* every other field as it was.
C15_PresentColumnsUpdated ==
    [][LoadedRow =>
          /\ ~ buttons'.null
          /\ DOMAIN buttons'.m = DOMAIN buttons.m
          /\ \A n \in DOMAIN buttons.m :
                LET col == Field(buttons.m[n], "column")
                    row == probe'.res.rows[1]
                IN  buttons'.m[n] = IF col \in DOMAIN row
                                    THEN [buttons.m[n] EXCEPT !.url = row[col]]
                                    ELSE buttons.m[n]]_vars

\* C15 as amended: a load that consumed a row keeps every entry and changes
\* nothing but urls; loadButtonData (the first load and the poll) sets the
\* url of exactly the buttons whose column the row has with a cell that is
\* not empty, and loadConfig (reload) of exactly the buttons whose column the
\* row has.
C15_SuppliedCellsUpdated ==
    [][LoadedRow =>
          /\ ~ buttons'.null
          /\ DOMAIN buttons'.m = DOMAIN buttons.m
          /\ \A n \in DOMAIN buttons.m :
                LET col == Field(buttons.m[n], "column")
                    row == probe'.res.rows[1]
                    supplied == /\ col \in DOMAIN row
                                /\ hEvt'.op = "reload" \/ row[col] # ""
                IN  buttons'.m[n] = IF supplied
                                    THEN [buttons.m[n] EXCEPT !.url = row[col]]
                                    ELSE buttons.m[n]]_vars

C15_Witness ==
    /\ hEvt = Evt("poll", "rows")
    /\ probe.res.rows[1] = [c \in {"btn1"} |-> "u1"]
    /\ HasAllKeys(buttons)
    /\ buttons.m["primary"] = [DefaultEntries["primary"] EXCEPT !.url = "u1"]
    /\ buttons.m["secondary"] = DefaultEntries["secondary"]
    /\ buttons.m["accent"] = DefaultEntries["accent"]
    /\ dom[1].href = "u1"

\* The cache holds text that is not JSON, or JSON that is not a snapshot with
\* the three configured names.
CacheInvalid ==
    \/ cache.kind = "garbage"
    \/ cache.kind = "json" /\ ~ HasAllKeys(cache.val)

\* C17: a load that reads an invalid cache does not throw, leaves the
\* in-memory snapshot as it was, and that snapshot is the one rendered.
C17_InvalidCacheIgnored ==
    [][(hEvt'.op \in LoadOps /\ probe'.read /\ CacheInvalid) =>
          /\ initPc' # "threw"
          /\ buttons' = buttons
          /\ applied' = buttons]_vars

\* C18 as claimed: when the later-resolving of two overlapping loads has
\* consumed a row, every button whose column the row has carries the cell as
\* url in the in-memory snapshot and as href on the page.
C18_LaterResponseIsState ==
    (/\ <<hEvt.op, probe.later>> \in {<<"poll", "reload">>, <<"reload", "poll">>}
     /\ hEvt.res = "rows"
     /\ HasAllKeys(buttons)) =>
        \A n \in Names :
            LET col == Field(buttons.m[n], "column")
                row == probe.res.rows[1]
            IN  col \in DOMAIN row =>
                    /\ buttons.m[n].url = row[col]
                    /\ \A e \in Targets(n) : dom[e].href = row[col]

\* C18 as amended: the later-resolving of two overlapping loads is applied to
\* what the earlier one left, whatever the order of issue. When it consumes a
\* row, each button whose column the row supplies (with a cell that is not
\* empty, for loadButtonData) takes the cell as url, and as href when the cell
\* is not empty; every other entry stays as the earlier response left it.
C18_LaterLoadAppliedLast ==
    [][(probe'.later # "" /\ LoadedRow) =>
          /\ ~ buttons'.null
          /\ DOMAIN buttons'.m = DOMAIN buttons.m
          /\ \A n \in DOMAIN buttons.m :
                LET col == Field(buttons.m[n], "column")
                    row == probe'.res.rows[1]
                    supplied == /\ col \in DOMAIN row
                                /\ hEvt'.op = "reload" \/ row[col] # ""
                IN  IF supplied
                    THEN /\ buttons'.m[n].url = row[col]
                         /\ row[col] # "" =>
                               \A e \in Targets(n) : dom'[e].href = row[col]
                    ELSE buttons'.m[n] = buttons.m[n]]_vars

C18_Witness ==
    /\ probe.later = "poll"
    /\ hEvt = Evt("reload", "rows")
    /\ probe.res.rows[1] = [c \in {"btn1"} |-> ""]
    /\ HasAllKeys(buttons)
    /\ buttons.m["primary"].url = ""
    /\ buttons.m["secondary"].url = "u1"
    /\ dom[1].href = "u1"
    /\ dom[2].href = "u1"

\* C21: the poll timer, once started, is never stopped; a tick whose fetch
\* fails (rejected, non-2xx, body that is not JSON) leaves the in-memory
\* snapshot, the applied snapshot and the DOM as they were; and a tick after
\* a failed one that fetches a row applies it: every configured button whose
\* column the row has with a cell that is not empty carries the cell as url
\* and as href.
C21_FailedTickHarmless ==
    [][/\ pollOn => pollOn'
       /\ (hEvt'.op = "poll" /\ hEvt'.res \in RemoteFailures) =>
             (buttons' = buttons /\ applied' = applied /\ dom' = dom)
       /\ (probe.failed /\ hEvt'.op = "poll" /\ hEvt'.res = "rows") =>
             \A n \in Names :
                LET col == DefaultEntries[n].column
                    row == probe'.res.rows[1]
                IN  (col \in DOMAIN row /\ row[col] # "") =>
                        /\ HasKey(buttons', n)
                        /\ buttons'.m[n].url = row[col]
                        /\ applied' = buttons'
                        /\ \A e \in Targets(n) : dom'[e].href = row[col]]_vars

\* updateButton() has just returned, and while it was in flight a poll or a
\* reload consumed a response with another url for its button.
ReturnedAfterOlderLoad ==
    /\ hEvt.op \in {"updateGet", "updateWrite"}
    /\ updPc = "idle"
    /\ probe.older

\* C23: when updateButton(name, {url: u}) returns after a poll or a reload
\* has consumed, during the call, a response with another url for name, the
\* in-memory snapshot and the cache both hold u for name.
C23_PatchSurvivesLoad ==
    ReturnedAfterOlderLoad =>
        /\ HasKey(buttons, updArgs.name)
        /\ buttons.m[updArgs.name].url = updArgs.updates.url
        /\ cache.kind = "json"
        /\ HasKey(cache.val, updArgs.name)
        /\ cache.val.m[updArgs.name].url = updArgs.updates.url

\* C22: updateButton(name, patch) with a name that is not a key of the
\* in-memory map returns false, leaves the map, the DOM and the cache as
\* they were and issues no request.
C22_UnknownNameRejected ==
    [][(/\ hEvt'.op = "updateStart"
        /\ ~ buttons.null
        /\ updArgs'.name \notin DOMAIN buttons.m) =>
          /\ updRet' = "false"
          /\ buttons' = buttons
          /\ dom' = dom
          /\ cache' = cache
          /\ reqs' = reqs]_vars

-----------------------------------------------------------------------------
(* Static-file ButtonManager: claims *)

\* C20: when loadConfig() of the static-file manager has completed (in init()
\* or reload()), this.config is the fetched document if the response was 2xx
\* with a parseable body and the built-in default otherwise, whatever config
\* was loaded before; nothing is thrown unless by the updateButtons() that
\* follows, on a document without buttons.
C20_LoadConfigResult ==
    sEvt.op \in {"init", "reload"} =>
        /\ config = IF sEvt.res = "doc" THEN sEvt.doc ELSE BuiltInDefault
        /\ sEvt.threw => config.kind # "doc"

C20_Witness ==
    /\ sEvt.op = "reload"
    /\ sEvt.res = "http"
    /\ sEvt.before = DocA
    /\ config = BuiltInDefault
    /\ sdom[1].href = "#"

-----------------------------------------------------------------------------
(* updateButtons() on a page: claims *)

EntryValue(entry, attr) ==
    CASE attr = "href" -> Field(entry, "url")
      [] attr = "text" -> IF Field(entry, "displayText") # "" THEN entry.displayText
                          ELSE Field(entry, "text")
      [] OTHER -> Field(entry, "description")

Last(S) == CHOOSE i \in S : \A j \in S : j <= i

\* The attribute of element e after the snapshot b has been applied: the value
\* of the last entry that selects e and has one, else what the element had.
HostedExpected(page, b, start, e, attr) ==
    LET hits == {i \in 1..Len(NameOrder) :
                    /\ NameOrder[i] \in DOMAIN b.m
                    /\ e \in TargetsOn(page, NameOrder[i])
                    /\ EntryValue(b.m[NameOrder[i]], attr) # ""}
    IN  IF hits = {} THEN start[e][attr]
        ELSE EntryValue(b.m[NameOrder[Last(hits)]], attr)

\* The same for a document of the static-file manager, which sets href and
\* text whatever their value and title when the description is not empty.
StaticExpected(page, c, start, e, attr) ==
    LET val(i) == CASE attr = "href" -> c.buttons[i].url
                    [] attr = "text" -> c.buttons[i].text
                    [] OTHER -> c.buttons[i].description
        hits == {i \in 1..Len(c.buttons) :
                    /\ e \in FirstMatch(page, c.buttons[i].name)
                    /\ attr = "title" => c.buttons[i].description # ""}
    IN  IF hits = {} THEN start[e][attr] ELSE val(Last(hits))

Attrs == {"href", "text", "title"}

\* C16: when a name of the snapshot has no element on the page,
\* updateButtons() of either manager does not throw, and every element
\* carries what the entries of the names that do select it give it.
C16_MissingTargetsSkipped ==
    /\ (/\ bench.kind = "hosted" /\ bench.passes >= 1 /\ ~ bench.b.null
        /\ \E n \in DOMAIN bench.b.m : TargetsOn(bench.page, n) = {})
          => /\ ~ bench.threw
             /\ \A e \in DOMAIN bench.page, attr \in Attrs :
                   bench.dom[e][attr] =
                       HostedExpected(bench.page, bench.b, bench.start, e, attr)
    /\ (/\ bench.kind = "static" /\ bench.passes >= 1 /\ bench.c.kind = "doc"
        /\ \E i \in 1..Len(bench.c.buttons) :
              FirstMatch(bench.page, bench.c.buttons[i].name) = {})
          => /\ ~ bench.threw
             /\ \A e \in DOMAIN bench.page, attr \in Attrs :
                   bench.dom[e][attr] =
                       StaticExpected(bench.page, bench.c, bench.start, e, attr)

C16_Witness ==
    /\ bench.kind = "hosted"
    /\ bench.page = PageWithoutPrimary
    /\ bench.passes = 1
    /\ HasAllKeys(bench.b)
    /\ bench.b.m["secondary"].url = "u1"
    /\ bench.dom[1].href = "u1"
    /\ bench.dom[2].href = "u1"
    /\ ~ bench.threw


=============================================================================
